---- MODULE Spec2Model ----
(***************************************************************************)
(* Freightos client: the sliding-window rate limiter kept in               *)
(* ~/.cache/freightos-shipment-manager/ratelimit.json, the sequencing of   *)
(* FreightosClient.request (check, fetch, record, examine, normalise) and  *)
(* the response normaliser, for CLI invocations that share the file; and   *)
(* the request builder (buildParams) on the options of one command line.   *)
(*                                                                         *)
(* Time is Date.now() in milliseconds.  An optional value (T | null,       *)
(* T | undefined) is a sequence of length 0 or 1.                          *)
(***************************************************************************)
EXTENDS Integers, Sequences, FiniteSets, TLC

\* ------------------------------------------------------------------------
\* Program constants
\* ------------------------------------------------------------------------
RATE_LIMIT == 100

RATE_LIMIT_WINDOW_MS == 60 * 60 * 1000

RATE_LIMIT_WARNING_THRESHOLD == 80

\* ------------------------------------------------------------------------
\* Bounds of the model
\* ------------------------------------------------------------------------
\* the clock stops after this many half windows
MaxHalfHours == 3

\* CLI invocations launched in one run of the model
MaxInvocations == 3

\* CLI invocations launched in one run of the race on the file
MaxRaceInvocations == 6

HalfWindow == RATE_LIMIT_WINDOW_MS \div 2

\* the clock advances by half a window or by a whole one
Deltas == {HalfWindow, RATE_LIMIT_WINDOW_MS}

\* CLI invocations that can be in flight at the same time (process slots; an
\* exited invocation frees its slot for the next one)
Procs == {"p1", "p2"}

\* call histories that earlier invocations left in the file: n calls made at
\* the milliseconds 1..n
PrefillCounts == {79, 99}

None == << >>

Some(x) == << x >>

Prefill(n) == [i \in 1..n |-> i]

\* ------------------------------------------------------------------------
\* The rate-limit file
\* ------------------------------------------------------------------------
\* kind: "missing"       no file
\*       "invalidJSON"   JSON.parse throws
\*       "noCalls"       a JSON object whose calls field is absent or falsy
\*       "callsNotArray" a JSON object whose calls field is truthy and no array
\*       "calls"         {calls: [timestamps]}
FileOf(kind, calls) == [kind |-> kind, calls |-> calls]

InitFiles ==
    {FileOf(k, << >>) : k \in {"missing", "invalidJSON", "noCalls", "callsNotArray"}}
        \cup {FileOf("calls", Prefill(n)) : n \in PrefillCounts}

\* loadRateLimitData: {calls: data.calls || []}, and {calls: []} when the file
\* is missing or reading or parsing it throws.  isArray tells whether the
\* value handed on is an array at all.
LoadRateLimitData(f) ==
    CASE f.kind = "calls" -> [isArray |-> TRUE, calls |-> f.calls]
      [] f.kind = "callsNotArray" -> [isArray |-> FALSE, calls |-> << >>]
      [] OTHER -> [isArray |-> TRUE, calls |-> << >>]

\* cleanOldCalls: calls.filter((timestamp) => timestamp > cutoff)
CleanOldCalls(calls, now_) ==
    LET cutoff == now_ - RATE_LIMIT_WINDOW_MS
    IN SelectSeq(calls, LAMBDA timestamp : timestamp > cutoff)

\* the newest call taken for the oldest
MinOf_Newest(calls) ==
    CHOOSE m \in {calls[i] : i \in 1..Len(calls)} :
        \A i \in 1..Len(calls) : m >= calls[i]

\* Math.min(...recentCalls) of a non-empty list
MinOf(calls) ==
    CHOOSE m \in {calls[i] : i \in 1..Len(calls)} :
        \A i \in 1..Len(calls) : m <= calls[i]

\* the difference without the floor at 0
Max0_Signed(x) == x

\* Math.max(0, x)
Max0(x) == IF x > 0 THEN x ELSE 0

\* Math.round((callsInLastHour / RATE_LIMIT) * 100): half rounds up
PercentUsed(callsInLastHour) ==
    (callsInLastHour * 200 + RATE_LIMIT) \div (2 * RATE_LIMIT)

\* Warning with the thresholds excluded (> for >=)
Warning_Strict(callsInLastHour, remaining, percentUsed, resetsAt) ==
    IF callsInLastHour > RATE_LIMIT
    THEN Some([variant |-> "RATE LIMIT REACHED", calls |-> callsInLastHour,
               until |-> resetsAt])
    ELSE IF callsInLastHour > RATE_LIMIT_WARNING_THRESHOLD
    THEN Some([variant |-> "Rate limit warning", calls |-> callsInLastHour,
               until |-> None])
    ELSE None

\* the warning text, by its variant and the numbers it prints
Warning(callsInLastHour, remaining, percentUsed, resetsAt) ==
    IF callsInLastHour >= RATE_LIMIT
    THEN Some([variant |-> "RATE LIMIT REACHED", calls |-> callsInLastHour,
               until |-> resetsAt])
    ELSE IF callsInLastHour >= RATE_LIMIT_WARNING_THRESHOLD
    THEN Some([variant |-> "Rate limit warning", calls |-> callsInLastHour,
               until |-> None])
    ELSE None

\* getRateLimitStatus on an array of calls
StatusOf(recentCalls) ==
    LET callsInLastHour == Len(recentCalls)
        remaining == Max0(RATE_LIMIT - callsInLastHour)
        percentUsed == PercentUsed(callsInLastHour)
        resetsAt == IF Len(recentCalls) > 0 /\ remaining = 0
                    THEN Some(MinOf(recentCalls) + RATE_LIMIT_WINDOW_MS)
                    ELSE None
    IN [callsInLastHour |-> callsInLastHour,
        limit |-> RATE_LIMIT,
        remaining |-> remaining,
        percentUsed |-> percentUsed,
        resetsAt |-> resetsAt,
        warning |-> Warning(callsInLastHour, remaining, percentUsed, resetsAt)]

\* getRateLimitStatus: load, prune, derive.  Defined when the loaded value is
\* an array; otherwise calls.filter throws a TypeError (StatusThrows).
GetRateLimitStatus(f, now_) ==
    StatusOf(CleanOldCalls(LoadRateLimitData(f).calls, now_))

StatusThrows(f) == ~LoadRateLimitData(f).isArray

\* checkRateLimit that never refuses
CheckRateLimit_AlwaysAllowed(f, now_) ==
    [allowed |-> TRUE, status |-> GetRateLimitStatus(f, now_)]

\* checkRateLimit
CheckRateLimit(f, now_) ==
    LET status == GetRateLimitStatus(f, now_)
    IN [allowed |-> status.remaining > 0, status |-> status]

\* recordCall up to the write: load, prune, push Date.now()
RecordedCalls(f, now_) ==
    Append(CleanOldCalls(LoadRateLimitData(f).calls, now_), now_)

\* ------------------------------------------------------------------------
\* The upstream response and its normalisation
\* ------------------------------------------------------------------------
\* response.errors: absent, a string, or an array of {error: string}
ErrField(type, str, items) == [type |-> type, str |-> str, items |-> items]

ErrFields ==
    {ErrField("absent", "", << >>),
     ErrField("string", "", << >>),
     ErrField("string", "bad route", << >>),
     ErrField("array", "", << >>),
     ErrField("array", "", <<"no origin", "no destination">>)}

\* one entry of estimatedFreightRates.mode
RawMode(mode, lo, hi) ==
    [mode |-> mode,
     price |-> [min |-> [moneyAmount |-> [amount |-> lo, currency |-> "USD"]],
                max |-> [moneyAmount |-> [amount |-> hi, currency |-> "USD"]]],
     transitTimes |-> [unit |-> "days", min |-> 3, max |-> 7]]

\* estimatedFreightRates.mode: absent, one object, or an array of objects
ModeField(type, items) == [type |-> type, items |-> items]

\* response.estimatedFreightRates: absent, or {numQuotes, mode}
RatesField(present, numQuotes, mode) ==
    [present |-> present, numQuotes |-> numQuotes, mode |-> mode]

RatesFields ==
    {RatesField(FALSE, 0, ModeField("absent", << >>)),
     RatesField(TRUE, 0, ModeField("absent", << >>)),
     RatesField(TRUE, 0, ModeField("object", <<RawMode("air", 10, 20)>>)),
     RatesField(TRUE, 2, ModeField("absent", << >>)),
     RatesField(TRUE, 1, ModeField("object", <<RawMode("air", 10, 20)>>)),
     RatesField(TRUE, 1, ModeField("array", << >>)),
     RatesField(TRUE, 2, ModeField("array",
                    <<RawMode("air", 10, 20), RawMode("LCL", 5, 8)>>))}

\* the bodies of RawApiResponse
Bodies == [errors : ErrFields, rates : RatesFields]

\* what fetch resolves to: a status outside or inside the success range, and
\* then a body that is JSON of the RawApiResponse shape or no JSON at all
Response(ok, status, json, body) ==
    [ok |-> ok, status |-> status, json |-> json, body |-> body]

AnyBody == CHOOSE b \in Bodies : b.errors.type = "absent" /\ ~b.rates.present

Responses ==
    {Response(FALSE, 500, FALSE, AnyBody), Response(TRUE, 200, FALSE, AnyBody)}
        \cup {Response(TRUE, 200, TRUE, b) : b \in Bodies}

\* one response of each outcome: a failure status, a business error, no rates,
\* rates
CoreResponses ==
    {r \in Responses :
        \/ ~r.ok
        \/ /\ r.json
           /\ r.body.errors.type = "string" /\ r.body.errors.str # ""
           /\ ~r.body.rates.present
        \/ /\ r.json
           /\ r.body.errors.type = "absent"
           /\ r.body.rates.present
           /\ r.body.rates.numQuotes \in {0, 1}
           /\ r.body.rates.mode.type \in {"absent", "object"}
           /\ (r.body.rates.numQuotes = 0) = (r.body.rates.mode.type = "absent")}

\* JavaScript truthiness of response.errors
ErrTruthy(e) == (e.type = "string" /\ e.str # "") \/ e.type = "array"

\* the first block of transformResponse without its array branch
ErrorsOf_StringOnly(e) ==
    IF ~ErrTruthy(e) THEN None
    ELSE IF e.type = "string" THEN Some(<<e.str>>)
    ELSE None

\* result.errors after the first block of transformResponse
ErrorsOf(e) ==
    IF ~ErrTruthy(e) THEN None
    ELSE IF e.type = "string" THEN Some(<<e.str>>)
    ELSE IF Len(e.items) > 0 THEN Some(e.items)
    ELSE None

\* one normalised FreightRate
FreightRate(m) ==
    [mode |-> m.mode,
     minPrice |-> [amount |-> m.price.min.moneyAmount.amount,
                   currency |-> m.price.min.moneyAmount.currency],
     maxPrice |-> [amount |-> m.price.max.moneyAmount.amount,
                   currency |-> m.price.max.moneyAmount.currency],
     transitTimes |-> [min |-> m.transitTimes.min, max |-> m.transitTimes.max,
                       unit |-> m.transitTimes.unit]]

\* QuoteResponse as transformResponse fills it
Quote(errors, rates, numQuotes) ==
    [errors |-> errors, estimatedFreightRates |-> rates, numQuotes |-> numQuotes]

\* transformResponse
TransformResponse(raw) ==
    LET errors == ErrorsOf(raw.errors)
        rates == raw.rates
    IN IF errors # None /\ Len(errors[1]) > 0
       THEN Quote(errors, None, None)
       ELSE IF ~rates.present
       THEN Quote(errors, None, None)
       ELSE IF rates.mode.type = "absent" \/ rates.numQuotes = 0
       THEN Quote(errors, Some(<< >>), Some(rates.numQuotes))
       ELSE Quote(errors,
                  Some([i \in 1..Len(rates.mode.items) |->
                           FreightRate(rates.mode.items[i])]),
                  Some(rates.numQuotes))

\* ------------------------------------------------------------------------
\* What an invocation ends with
\* ------------------------------------------------------------------------
\* kind: "none"      nothing yet
\*       "returned"  request returned a QuoteResponse
\*       "threw"     a raised Error (it carries a message and nothing else)
\*       "status"    getRateLimitStatus returned
Result(kind, quote, rateLimit, thrown) ==
    [kind |-> kind, errors |-> quote.errors,
     estimatedFreightRates |-> quote.estimatedFreightRates,
     numQuotes |-> quote.numQuotes, rateLimit |-> rateLimit, thrown |-> thrown]

NoQuote == Quote(None, None, None)

NoResult == Result("none", NoQuote, None, None)

Threw(message, detail) ==
    Result("threw", NoQuote, None, Some([message |-> message, detail |-> detail]))

\* the error outcome of a refused request: one message, and the status
Refusal(status) ==
    Result("returned",
           Quote(Some(<<[message |-> "Rate limit exceeded",
                         calls |-> status.callsInLastHour,
                         limit |-> status.limit,
                         at |-> status.resetsAt]>>), None, None),
           Some(status), None)

\* request after recordCall: the status, the body, the normalised result
Examine(resp, f, now_) ==
    IF ~resp.ok THEN Threw("Freightos API error", <<resp.status>>)
    ELSE IF ~resp.json THEN Threw("SyntaxError", << >>)
    ELSE LET data == TransformResponse(resp.body)
             rateLimit == GetRateLimitStatus(f, now_)
         IN IF data.errors # None /\ Len(data.errors[1]) > 0
            THEN Threw("Freightos API errors", data.errors[1])
            ELSE Result("returned", data, Some(rateLimit), None)

\* saveRateLimitData: the file after the write, or the old file when
\* writeFileSync throws (the error is swallowed)
SaveRateLimitData(f, calls, writeOk) ==
    IF writeOk THEN FileOf("calls", calls) ELSE f

\* ------------------------------------------------------------------------
\* The request builder
\* ------------------------------------------------------------------------
\* QuoteOptions: the optional fields are None or Some(value)
QuoteOptions(weight, weightUnit, width, length, height, dimensionUnit, volume, volumeUnit, quantity, mode, estimate) ==
    [origin |-> "CNSHA", destination |-> "USLAX", loadtype |-> "pallets",
     weight |-> weight, weightUnit |-> weightUnit,
     width |-> width, length |-> length, height |-> height,
     dimensionUnit |-> dimensionUnit,
     volume |-> volume, volumeUnit |-> volumeUnit,
     quantity |-> quantity, mode |-> mode, estimate |-> estimate,
     hazCode |-> None]

\* the options a command line can carry (quoteOptionsSchema), no estimate flag
OptionsSet ==
    {QuoteOptions(500, wu, w, l, h, du, v, vu, q, m, FALSE) :
        wu \in {None, Some("kg"), Some("lb")},
        w \in {None, Some(120)}, l \in {None, Some(80)}, h \in {None, Some(100)},
        du \in {None, Some("cm"), Some("inch")},
        v \in {None, Some(2)},
        vu \in {None, Some("cbm"), Some("cft")},
        q \in {None, Some(1), Some(3)},
        m \in {None, Some("air")}}

\* `${value}${unit}` with a blank between the number and the unit
Suffixed_Spaced(value, unit) == ToString(value) \o " " \o unit

\* `${value}${unit}`: the number's text, then the unit's
Suffixed(value, unit) == ToString(value) \o unit

\* the weight parameter
WeightParam(o) ==
    IF o.weightUnit # None /\ o.weightUnit[1] # "" /\ o.weightUnit[1] # "kg"
    THEN Suffixed(o.weight, o.weightUnit[1])
    ELSE ToString(o.weight)

\* a width, length, height or volume parameter: unit is `options.xUnit || ""`
SizeParam(value, unitOption) ==
    IF value = None THEN None
    ELSE LET unit == IF unitOption # None THEN unitOption[1] ELSE ""
         IN Some(Suffixed(value[1], unit))

\* buildParams: the URLSearchParams, each key None (not set) or Some(text)
BuildParams(o) ==
    [origin |-> Some(o.origin),
     destination |-> Some(o.destination),
     loadtype |-> Some(o.loadtype),
     weight |-> Some(WeightParam(o)),
     width |-> SizeParam(o.width, o.dimensionUnit),
     length |-> SizeParam(o.length, o.dimensionUnit),
     height |-> SizeParam(o.height, o.dimensionUnit),
     volume |-> SizeParam(o.volume, o.volumeUnit),
     quantity |-> IF o.quantity # None /\ o.quantity[1] > 1
                  THEN Some(ToString(o.quantity[1])) ELSE None,
     mode |-> IF o.mode # None /\ o.mode[1] # "" THEN o.mode ELSE None,
     estimate |-> IF o.estimate THEN Some("true") ELSE None,
     hazCode |-> IF o.hazCode # None /\ o.hazCode[1] # "" THEN o.hazCode ELSE None,
     format |-> Some("json")]

\* ------------------------------------------------------------------------
\* State
\* ------------------------------------------------------------------------
VARIABLES
    now,      \* Date.now()
    file,     \* the content of ratelimit.json
    netLog,   \* the times at which the HTTP calls were sent, oldest first
    launched, \* the CLI invocations launched so far
    pc,       \* per invocation: "idle", "await", "write", "done"
    recent,   \* per invocation: recordCall's recentCalls before the write
    result,   \* per invocation: what it ended with
    options,  \* the QuoteOptions of the request being built, if any
    params    \* the URLSearchParams built from them, if any

vars == <<now, file, netLog, launched, pc, recent, result, options, params>>

\* A first invocation finds the file f; the calls it holds were sent.
InitWith(f) ==
    /\ file = f
    /\ now = Len(f.calls)
    /\ netLog = f.calls
    /\ launched = 0
    /\ pc = [p \in Procs |-> "idle"]
    /\ recent = [p \in Procs |-> << >>]
    /\ result = [p \in Procs |-> NoResult]
    /\ options = None
    /\ params = None

Init == \E f \in InitFiles : InitWith(f)

\* request, up to the fetch: the pre-flight check and, when it allows, the GET
RequestStart(p) ==
    /\ pc[p] \in {"idle", "done"}
    /\ launched' = launched + 1
    /\ IF StatusThrows(file)
       THEN /\ result' = [result EXCEPT ![p] = Threw("TypeError", << >>)]
            /\ pc' = [pc EXCEPT ![p] = "done"]
            /\ UNCHANGED netLog
       ELSE LET check == CheckRateLimit(file, now)
            IN IF ~check.allowed
               THEN /\ result' = [result EXCEPT ![p] = Refusal(check.status)]
                    /\ pc' = [pc EXCEPT ![p] = "done"]
                    /\ UNCHANGED netLog
               ELSE /\ netLog' = Append(netLog, now)
                    /\ pc' = [pc EXCEPT ![p] = "await"]
                    /\ result' = [result EXCEPT ![p] = NoResult]
    /\ UNCHANGED <<now, file, recent, options, params>>

\* a rejected fetch answered by sending the GET again
FetchRejects_Retry(p) ==
    /\ pc[p] = "await"
    /\ netLog' = Append(netLog, now)
    /\ UNCHANGED <<now, file, launched, pc, recent, result, options, params>>

\* await fetch rejects (no response): request throws before recordCall
FetchRejects(p) ==
    /\ pc[p] = "await"
    /\ pc' = [pc EXCEPT ![p] = "done"]
    /\ result' = [result EXCEPT ![p] = Threw("fetch failed", << >>)]
    /\ UNCHANGED <<now, file, netLog, launched, recent, options, params>>

\* await fetch resolves: recordCall loads, prunes and pushes Date.now()
FetchResolves(p) ==
    /\ pc[p] = "await"
    /\ IF StatusThrows(file)
       THEN /\ result' = [result EXCEPT ![p] = Threw("TypeError", << >>)]
            /\ pc' = [pc EXCEPT ![p] = "done"]
            /\ UNCHANGED recent
       ELSE /\ recent' = [recent EXCEPT ![p] = RecordedCalls(file, now)]
            /\ pc' = [pc EXCEPT ![p] = "write"]
            /\ UNCHANGED result
    /\ UNCHANGED <<now, file, netLog, launched, options, params>>

\* recordCall's write, then the rest of request on the response
RecordWrite(p, writeOk, resp) ==
    /\ pc[p] = "write"
    /\ file' = SaveRateLimitData(file, recent[p], writeOk)
    /\ result' = [result EXCEPT ![p] = Examine(resp, file', now)]
    /\ pc' = [pc EXCEPT ![p] = "done"]
    /\ recent' = [recent EXCEPT ![p] = << >>]
    /\ UNCHANGED <<now, netLog, launched, options, params>>

\* a status query that writes the pruned history back
StatusQuery_WriteBack(p) ==
    /\ pc[p] \in {"idle", "done"}
    /\ launched' = launched + 1
    /\ result' = [result EXCEPT ![p] =
           IF StatusThrows(file) THEN Threw("TypeError", << >>)
           ELSE Result("status", NoQuote, Some(GetRateLimitStatus(file, now)), None)]
    /\ file' = IF StatusThrows(file) THEN file
               ELSE FileOf("calls", CleanOldCalls(LoadRateLimitData(file).calls, now))
    /\ pc' = [pc EXCEPT ![p] = "done"]
    /\ UNCHANGED <<now, netLog, recent, options, params>>

\* the rate-limit and list-tools commands: getRateLimitStatus, nothing else
StatusQuery(p) ==
    /\ pc[p] \in {"idle", "done"}
    /\ launched' = launched + 1
    /\ result' = [result EXCEPT ![p] =
           IF StatusThrows(file) THEN Threw("TypeError", << >>)
           ELSE Result("status", NoQuote, Some(GetRateLimitStatus(file, now)), None)]
    /\ pc' = [pc EXCEPT ![p] = "done"]
    /\ UNCHANGED <<now, file, netLog, recent, options, params>>

\* time passes between invocations (an invocation lasts far less than half a
\* window)
Tick(d) ==
    /\ \A p \in Procs : pc[p] \in {"idle", "done"}
    /\ (now + d) \div HalfWindow <= MaxHalfHours
    /\ now' = now + d
    /\ UNCHANGED <<file, netLog, launched, pc, recent, result, options, params>>

\* getQuote up to its request: buildParams(options)
GetQuote ==
    /\ options # None
    /\ params' = Some(BuildParams(options[1]))
    /\ UNCHANGED <<now, file, netLog, launched, pc, recent, result, options>>

\* getQuoteEstimate up to its request: buildParams({...options, estimate: true})
GetQuoteEstimate ==
    /\ options # None
    /\ params' = Some(BuildParams([options[1] EXCEPT !.estimate = TRUE]))
    /\ UNCHANGED <<now, file, netLog, launched, pc, recent, result, options>>

\* compareRates up to its request: buildParams(options), then delete("mode")
CompareRates ==
    /\ options # None
    /\ params' = Some([BuildParams(options[1]) EXCEPT !.mode = None])
    /\ UNCHANGED <<now, file, netLog, launched, pc, recent, result, options>>

\* Invocations that share the file and overlap; a write may fail.
Next ==
    \/ \E p \in Procs : launched < MaxInvocations /\ RequestStart(p)
    \/ \E p \in Procs : FetchRejects(p)
    \/ \E p \in Procs : FetchResolves(p)
    \/ \E p \in Procs, writeOk \in BOOLEAN, resp \in CoreResponses :
           RecordWrite(p, writeOk, resp)
    \/ \E p \in Procs : launched < MaxInvocations /\ StatusQuery(p)
    \/ \E d \in Deltas : Tick(d)

Spec == Init /\ [][Next]_vars

\* One invocation after another (a single process slot), every write of the
\* file succeeds, every response.
NextSeq ==
    \/ launched < MaxInvocations /\ RequestStart("p1")
    \/ FetchRejects("p1")
    \/ FetchResolves("p1")
    \/ \E resp \in Responses : RecordWrite("p1", TRUE, resp)
    \/ launched < MaxInvocations /\ StatusQuery("p1")
    \/ \E d \in Deltas : Tick(d)

SpecSeq == Init /\ [][NextSeq]_vars

\* The race on the file alone: quote operations that overlap, three calls short
\* of the limit, every write succeeds, every fetch resolves, no time passes.
InitRace == InitWith(FileOf("calls", Prefill(RATE_LIMIT - 3)))

NextRace ==
    \/ \E p \in Procs : launched < MaxRaceInvocations /\ RequestStart(p)
    \/ \E p \in Procs : FetchResolves(p)
    \/ \E p \in Procs, resp \in CoreResponses : RecordWrite(p, TRUE, resp)

SpecRace == InitRace /\ [][NextRace]_vars

\* The request builder alone: the options of one command line, built by each
\* of the three quote operations.
InitBuild ==
    /\ options \in {Some(o) : o \in OptionsSet}
    /\ params = None
    /\ file = FileOf("missing", << >>)
    /\ now = 0
    /\ netLog = << >>
    /\ launched = 0
    /\ pc = [p \in Procs |-> "idle"]
    /\ recent = [p \in Procs |-> << >>]
    /\ result = [p \in Procs |-> NoResult]

NextBuild ==
    \/ GetQuote
    \/ GetQuoteEstimate
    \/ CompareRates

SpecBuild == InitBuild /\ [][NextBuild]_vars

\* ------------------------------------------------------------------------
\* Properties
\* ------------------------------------------------------------------------
\* the HTTP calls sent in the 60 minutes (3,600,000 ms) that end with t
WindowCalls(t) ==
    Cardinality({i \in DOMAIN netLog :
                    netLog[i] > t - RATE_LIMIT_WINDOW_MS /\ netLog[i] <= t})

\* the count a status computed at t from the file f reports
StoredCount(f, t) == Len(CleanOldCalls(LoadRateLimitData(f).calls, t))

\* an outcome the caller sees as a failure: a raised error, or an outcome
\* with a non-empty error list
IsFailure(r) ==
    \/ r.kind = "threw"
    \/ r.kind = "returned" /\ r.errors # None /\ Len(r.errors[1]) > 0

\* the request was refused by the pre-flight check
IsRefusal(r) ==
    /\ r.kind = "returned"
    /\ r.errors # None
    /\ r.rateLimit # None
    /\ r.rateLimit[1].remaining = 0

RaisedWith(r, message) ==
    r.kind = "threw" /\ r.thrown[1].message = message

C2_AtMostLimitPerWindow ==
    \A i \in DOMAIN netLog : WindowCalls(netLog[i]) <= 100

\* C3: every operation whose HTTP call was attempted goes on to record, and
\* its write raises the stored count by exactly 1, whatever the response.
C3_EveryAttemptRecorded ==
    [][\A p \in Procs :
          /\ (pc[p] = "await" /\ pc'[p] # "await") => pc'[p] = "write"
          /\ (pc[p] = "write" /\ pc'[p] = "done")
                => StoredCount(file', now) = StoredCount(file, now) + 1]_vars

\* C4: the calls of one window exceed the limit by no more than the number
\* of invocations in flight at the same time (never more than the process
\* slots).
C4_OvershootWithinInFlight ==
    \A i \in DOMAIN netLog :
        WindowCalls(netLog[i]) <= RATE_LIMIT + Cardinality(Procs)

\* C5: a refusal, a failure status, a business error, a success without rates
\* and a success with rates all reach the caller with a rate-limit status.
C5_EveryOutcomeCarriesStatus ==
    \A p \in Procs :
        (/\ pc[p] = "done"
         /\ \/ result[p].kind = "returned"
            \/ RaisedWith(result[p], "Freightos API error")
            \/ RaisedWith(result[p], "Freightos API errors"))
        => result[p].rateLimit # None

\* the response is a failure of the upstream: a status outside the success
\* range, or a body whose error field is populated
UpstreamFailed(resp) ==
    \/ ~resp.ok
    \/ /\ resp.json
       /\ \/ resp.body.errors.type = "string" /\ resp.body.errors.str # ""
          \/ resp.body.errors.type = "array" /\ Len(resp.body.errors.items) > 0

\* C6: a refusal, a failure status and a body with a populated error field
\* each reach the caller as a failure, never as a success outcome.
C6_FailuresSurface ==
    [][\A p \in Procs :
          /\ \A writeOk \in BOOLEAN, resp \in Responses :
                (RecordWrite(p, writeOk, resp) /\ UpstreamFailed(resp))
                    => IsFailure(result'[p])
          /\ (RequestStart(p) /\ pc'[p] = "done") => IsFailure(result'[p])]_vars

\* C6 witness: a body whose error field is an array of two errors was answered
\* by a raised error that carries both.
C6_BusinessErrorRaised ==
    \E p \in Procs :
        /\ pc[p] = "done"
        /\ RaisedWith(result[p], "Freightos API errors")
        /\ Len(result[p].thrown[1].detail) = 2

\* C7: whatever the file holds that is not {calls: [numbers]}, no invocation
\* crashes on it, and a status reports zero calls.
C7_BadFileIsEmptyHistory ==
    \A p \in Procs :
        (pc[p] = "done" /\ file.kind # "calls")
        => /\ ~RaisedWith(result[p], "TypeError")
           /\ result[p].kind = "status"
                 => result[p].rateLimit[1].callsInLastHour = 0

\* C8: the status attached to an operation's result counts the call the
\* operation has just recorded, also when the write of the file failed.
C8_StatusCountsOwnCall ==
    \A p \in Procs :
        (/\ pc[p] = "done"
         /\ result[p].kind = "returned"
         /\ ~IsRefusal(result[p]))
        => result[p].rateLimit[1].callsInLastHour >= 1

\* C9: pruning keeps exactly the entries that are not older than one hour
\* (timestamp >= now - 3600000), the entry exactly one hour old included.
C9_PruneKeepsLastHour ==
    [][\A p \in Procs :
          (pc[p] = "await" /\ pc'[p] = "write")
          => SubSeq(recent'[p], 1, Len(recent'[p]) - 1)
                 = SelectSeq(LoadRateLimitData(file).calls,
                             LAMBDA t : ~(t < now - 3600000))]_vars

\* C10: in every status the warning is non-null iff the count is at least 80,
\* the "limit reached" variant iff the count is at least 100, and the
\* "approaching" variant for the counts 80 to 99.
C10_WarningThresholds ==
    \A p \in Procs :
        result[p].rateLimit # None
        => LET st == result[p].rateLimit[1]
               n == st.callsInLastHour
           IN /\ (st.warning # None) <=> (n >= 80)
              /\ (st.warning # None /\ st.warning[1].variant = "RATE LIMIT REACHED")
                    <=> (n >= 100)
              /\ (st.warning # None /\ st.warning[1].variant = "Rate limit warning")
                    <=> (n >= 80 /\ n <= 99)

\* C10 witness: one invocation holds an "approaching" status and another a
\* "limit reached" status.
C10_BothWarnings ==
    \E p, q \in Procs :
        /\ result[p].rateLimit # None
        /\ result[q].rateLimit # None
        /\ result[p].rateLimit[1].warning # None
        /\ result[q].rateLimit[1].warning # None
        /\ result[p].rateLimit[1].warning[1].variant = "Rate limit warning"
        /\ result[q].rateLimit[1].warning[1].variant = "RATE LIMIT REACHED"

\* the entries of the file f that a prune at t keeps, counted one by one
KeptEntries(f, t) ==
    LET calls == LoadRateLimitData(f).calls
    IN Cardinality({i \in DOMAIN calls : calls[i] > t - RATE_LIMIT_WINDOW_MS})

\* C11: every status an invocation computes reports as its count the number
\* of entries of the file that lie in the window, and as remaining
\* max(0, 100 - count): 100 - count up to 100 calls, 0 above, never negative.
C11_RemainingIsFlooredDifference ==
    [][\A p \in Procs :
          (result'[p] # result[p] /\ result'[p].rateLimit # None)
          => LET st == result'[p].rateLimit[1]
                 count == KeptEntries(file', now)
             IN /\ st.callsInLastHour = count
                /\ st.limit = 100
                /\ st.remaining = (IF count <= 100 THEN 100 - count ELSE 0)
                /\ st.remaining >= 0]_vars

\* C11 witness: a status computed over more than 100 entries reports 0
\* remaining.
C11_OverLimitStatus ==
    \E p \in Procs :
        /\ result[p].rateLimit # None
        /\ result[p].rateLimit[1].callsInLastHour > RATE_LIMIT
        /\ result[p].rateLimit[1].remaining = 0

\* the body carries no error: its error field is absent, falsy or an empty
\* array
NoBodyError(body) ==
    ~(\/ body.errors.type = "string" /\ body.errors.str # ""
      \/ body.errors.type = "array" /\ Len(body.errors.items) > 0)

\* the body's rates are present and announce nothing: numQuotes is 0, or the
\* mode field is absent or an empty array
NoRatesOffered(body) ==
    /\ body.rates.present
    /\ \/ body.rates.numQuotes = 0
       \/ body.rates.mode.type = "absent"
       \/ body.rates.mode.type = "array" /\ Len(body.rates.mode.items) = 0

\* C12: a body without error whose rates are present with numQuotes 0, or
\* with the mode field absent or empty, is answered by a success outcome with
\* an empty rate list and numQuotes = 0.
C12_NoRatesIsZeroQuotes ==
    [][\A p \in Procs : \A resp \in Responses :
          (/\ RecordWrite(p, TRUE, resp)
           /\ resp.ok /\ resp.json
           /\ NoBodyError(resp.body)
           /\ NoRatesOffered(resp.body))
          => /\ result'[p].kind = "returned"
             /\ result'[p].errors = None
             /\ result'[p].estimatedFreightRates = Some(<< >>)
             /\ result'[p].numQuotes = Some(0)]_vars

\* the error shape: a non-empty error list and no rate list
ErrorShape(q) ==
    /\ q.errors # None /\ Len(q.errors[1]) > 0
    /\ q.estimatedFreightRates = None

\* the rates shape: a rate list, possibly empty, and no error list
RatesShape(q) ==
    /\ q.estimatedFreightRates # None
    /\ q.errors = None

\* C13: whatever body the upstream answers with, the normalised result is of
\* the error shape or of the rates shape, never of both and never of neither.
C13_ExactlyOneShape ==
    [][\A p \in Procs : \A resp \in Responses :
          (RecordWrite(p, TRUE, resp) /\ resp.ok /\ resp.json)
          => LET q == TransformResponse(resp.body)
             IN /\ ErrorShape(q) \/ RatesShape(q)
                /\ ~(ErrorShape(q) /\ RatesShape(q))
                /\ result'[p].kind = "returned"
                       => (result'[p].errors = q.errors
                           /\ result'[p].estimatedFreightRates
                                  = q.estimatedFreightRates)]_vars

StaleEntries(f, t) == Len(LoadRateLimitData(f).calls) - KeptEntries(f, t)

\* C15: a status query (the rate-limit and list-tools commands, and the
\* pre-flight check of a quote operation) leaves the file as it is, stale
\* entries included; the file changes only by recordCall's write, which
\* leaves no stale entry.
C15_StatusQueryWritesNothing ==
    [][/\ launched' # launched => file' = file
       /\ \A p \in Procs :
             (result'[p] # result[p] /\ result'[p].kind = "status")
                => file' = file
       /\ file' # file
             => /\ \E p \in Procs : pc[p] = "write" /\ pc'[p] = "done"
                /\ StaleEntries(file', now) = 0]_vars

\* C15 witness: a status query has answered with a count below the number of
\* entries in the file, and the stale entries are still there.
C15_StaleEntriesStay ==
    \E p \in Procs :
        /\ pc[p] = "done"
        /\ result[p].kind = "status"
        /\ result[p].rateLimit[1].callsInLastHour < Len(file.calls)
        /\ StaleEntries(file, now) > 0

\* the text of a value under the convention "bare number when the unit is
\* absent or the default one, the number followed at once by the unit
\* otherwise"
BareOrSuffixed(value, unitOption, defaultUnit) ==
    IF unitOption = None \/ unitOption[1] = defaultUnit
    THEN ToString(value)
    ELSE ToString(value) \o unitOption[1]

\* C16: weight, width, length, height and volume are each serialised as the
\* bare number when the unit is absent or the default one (kg, cm, cbm), and as
\* the number followed at once by the unit otherwise.
C16_UniformSuffix ==
    params # None
    => LET o == options[1]
           q == params[1]
       IN /\ q.weight = Some(BareOrSuffixed(o.weight, o.weightUnit, "kg"))
          /\ o.width # None
                => q.width = Some(BareOrSuffixed(o.width[1], o.dimensionUnit, "cm"))
          /\ o.length # None
                => q.length = Some(BareOrSuffixed(o.length[1], o.dimensionUnit, "cm"))
          /\ o.height # None
                => q.height = Some(BareOrSuffixed(o.height[1], o.dimensionUnit, "cm"))
          /\ o.volume # None
                => q.volume = Some(BareOrSuffixed(o.volume[1], o.volumeUnit, "cbm"))

\* the text of a value under the convention "bare number when the unit is
\* absent, the number followed at once by the unit otherwise"
BareOrAnyUnit(value, unitOption) ==
    IF unitOption = None THEN ToString(value)
    ELSE ToString(value) \o unitOption[1]

\* C16 as amended: weight is the bare number when its unit is absent or kg;
\* width, length, height and volume are the bare number only when their unit
\* is absent; in every other case the text is the number followed at once by
\* the unit, the default units cm and cbm included.  A size that is not given
\* sets no parameter.
C16_SuffixUnlessAbsent ==
    params # None
    => LET o == options[1]
           q == params[1]
       IN /\ q.weight = Some(BareOrSuffixed(o.weight, o.weightUnit, "kg"))
          /\ q.width = IF o.width = None THEN None
                       ELSE Some(BareOrAnyUnit(o.width[1], o.dimensionUnit))
          /\ q.length = IF o.length = None THEN None
                        ELSE Some(BareOrAnyUnit(o.length[1], o.dimensionUnit))
          /\ q.height = IF o.height = None THEN None
                        ELSE Some(BareOrAnyUnit(o.height[1], o.dimensionUnit))
          /\ q.volume = IF o.volume = None THEN None
                        ELSE Some(BareOrAnyUnit(o.volume[1], o.volumeUnit))

\* C16 witness: built parameters with a weight in lb, a width in the default
\* unit cm and a volume without unit.
C16_MixedUnitsBuilt ==
    /\ params # None
    /\ params[1].weight = Some("500lb")
    /\ params[1].width = Some("120cm")
    /\ params[1].volume = Some("2")
    /\ options[1].volumeUnit = None

\* the entries of the file f that lie in the window at t
ValidTimestamps(f, t) ==
    LET calls == LoadRateLimitData(f).calls
    IN {calls[i] : i \in {j \in DOMAIN calls : calls[j] > t - RATE_LIMIT_WINDOW_MS}}

\* C17: in every status an invocation computes, resetsAt is non-null iff
\* remaining = 0, and it is then the oldest timestamp in the window plus one
\* hour, strictly later than the time of the query; every refusal's message
\* carries that time.
C17_ResetsAtIffExhausted ==
    [][\A p \in Procs :
          (result'[p] # result[p] /\ result'[p].rateLimit # None)
          => LET st == result'[p].rateLimit[1]
                 valid == ValidTimestamps(file', now)
             IN /\ (st.resetsAt # None) <=> (st.remaining = 0)
                /\ st.resetsAt # None
                      => /\ st.resetsAt[1] - 3600000 \in valid
                         /\ \A t \in valid : st.resetsAt[1] - 3600000 <= t
                         /\ st.resetsAt[1] > now
                /\ IsRefusal(result'[p])
                      => /\ st.resetsAt # None
                         /\ result'[p].errors[1][1].at = st.resetsAt]_vars

\* C17 witness: an invocation was refused with a reset time that lies ahead
\* of the clock.
C17_RefusalNamesResetTime ==
    \E p \in Procs :
        /\ pc[p] = "done"
        /\ IsRefusal(result[p])
        /\ result[p].rateLimit[1].resetsAt # None
        /\ result[p].rateLimit[1].resetsAt[1] > now
        /\ result[p].errors[1][1].at = result[p].rateLimit[1].resetsAt

====
